---- MODULE Spec2Model ----
(***************************************************************************)
(* A model of the file-drop service (src/server.js): the path sanitizer,   *)
(* the credential store and its token check, the upload/delete/move/       *)
(* folder handlers over a file system with symbolic links, and the tree    *)
(* listing.                                                                *)
(*                                                                         *)
(* A string is a sequence of one-character strings, so that replace,       *)
(* split, filter, map and join are computed character by character.        *)
(***************************************************************************)
EXTENDS Integers, Sequences, FiniteSets, TLC

\* ------------------------------------------------------------------ bounds

\* Longest enumerated raw path string of the sanitizer specification.
MaxRawLen == 4

\* Requests the file routes accept over one behaviour.
MaxRequests == 2

\* How many requests a run of the todo service accepts.
MaxTodoRequests == 5

\* ------------------------------------------------------------ characters

Letters ==
  { "a", "b", "c", "d", "e", "f", "g", "h", "i", "j", "k", "l", "m",
    "n", "o", "p", "q", "r", "s", "t", "u", "v", "w", "x", "y", "z",
    "A", "B", "C", "D", "E", "F", "G", "H", "I", "J", "K", "L", "M",
    "N", "O", "P", "Q", "R", "S", "T", "U", "V", "W", "X", "Y", "Z" }

Digits == { "0", "1", "2", "3", "4", "5", "6", "7", "8", "9" }

\* The character class [a-zA-Z0-9._-] of cleanRelPath's second replace.
SafeChar(c) == c \in Letters \cup Digits \cup { ".", "_", "-" }

\* The characters raw path strings are enumerated over: both separators, the
\* dot, one safe character and one character outside the safe class.
RawAlphabet == { "/", "\\", ".", "a", "$" }

\* ------------------------------------------------------- string helpers

\* String.prototype.split('/'): the segments between separators, empty
\* segments kept; the empty string splits into one empty segment.
RECURSIVE SplitFrom(_, _, _)
SplitFrom(s, i, cur) ==
  IF i > Len(s) THEN << cur >>
  ELSE IF s[i] = "/" THEN << cur >> \o SplitFrom(s, i + 1, << >>)
  ELSE SplitFrom(s, i + 1, Append(cur, s[i]))

Split(s) == SplitFrom(s, 1, << >>)

\* Array.prototype.join('/').
RECURSIVE Join(_)
Join(segs) ==
  IF Len(segs) = 0 THEN << >>
  ELSE IF Len(segs) = 1 THEN segs[1]
  ELSE segs[1] \o << "/" >> \o Join(Tail(segs))

DotDot == << ".", "." >>
Dot == << "." >>

\* ------------------------------------------------------------ sanitizer

\* p.replace(/\\/g, '/')
ReplaceBackslashes(p) ==
  [i \in 1..Len(p) |-> IF p[i] = "\\" THEN "/" ELSE p[i]]

\* A filter that lets `..` through (the fault the sanitizer must not have).
KeepSegmentLax(segment) == segment # << >> /\ segment # Dot

\* (segment) => segment && segment !== '..' && segment !== '.'
KeepSegment(segment) == segment # << >> /\ segment # DotDot /\ segment # Dot

\* A replacement by a character that can itself form a `..` segment.
CleanSegmentDots(segment) ==
  [i \in 1..Len(segment) |-> IF SafeChar(segment[i]) THEN segment[i] ELSE "."]

\* segment.replace(/[^a-zA-Z0-9._-]/g, '_')
CleanSegment(segment) ==
  [i \in 1..Len(segment) |-> IF SafeChar(segment[i]) THEN segment[i] ELSE "_"]

\* The segments cleanRelPath keeps, each cleaned.
CleanSegments(p) ==
  LET kept == SelectSeq(Split(ReplaceBackslashes(p)), KeepSegment)
  IN  [i \in 1..Len(kept) |-> CleanSegment(kept[i])]

cleanRelPath(p) == Join(CleanSegments(p))

\* --------------------------------------------------------------- paths

\* The storage root, an absolute path given by its segments.
UPLOAD_DIR == << << "u", "p" >> >>

\* path.normalize over an absolute path: empty and `.` segments vanish, a
\* `..` segment removes the segment before it (and nothing at `/`).
RECURSIVE Normalize(_, _)
Normalize(acc, segs) ==
  IF Len(segs) = 0 THEN acc
  ELSE LET s == Head(segs) IN
       IF s = << >> \/ s = Dot THEN Normalize(acc, Tail(segs))
       ELSE IF s = DotDot
            THEN Normalize(IF Len(acc) = 0 THEN acc
                           ELSE SubSeq(acc, 1, Len(acc) - 1), Tail(segs))
       ELSE Normalize(Append(acc, s), Tail(segs))

\* path.join(base, rel), base absolute and normalized, rel a string.
PathJoin(base, rel) == Normalize(base, Split(rel))

\* path.dirname of an absolute path (the root is its own parent).
Dirname(abs) == IF Len(abs) = 0 THEN abs ELSE SubSeq(abs, 1, Len(abs) - 1)

IsPrefix(a, b) == Len(a) <= Len(b) /\ SubSeq(b, 1, Len(a)) = a

\* The path is the storage root or lies under it.
InsideRoot(abs) == IsPrefix(UPLOAD_DIR, abs)

\* ------------------------------------------------------------ variables

VARIABLES
  san,        \* one run of the sanitizer: raw input, cleaned path, joined path
  credsFile,  \* the record stored at CREDS_PATH, or None
  env,        \* ADMIN_USERNAME and ADMIN_PASSWORD of the process
  fs,         \* the file system: absolute path -> node
  up,         \* the upload request in flight (multer staging, then the handler)
  stageNo,    \* how many staged file names multer has generated
  reqs,       \* how many requests the routes have accepted
  resp,       \* the last response sent
  db          \* the todo service's database: its tables, a row's id its index

vars == << san, credsFile, env, fs, up, stageNo, reqs, resp, db >>

None == [kind |-> "none"]

\* ------------------------------------------------- sanitizer inputs

\* sanitize("") and sanitize("../../etc/passwd") of the specification.
EmptyRaw == << >>

EtcPasswdRaw ==
  << ".", ".", "/", ".", ".", "/", "e", "t", "c", "/",
     "p", "a", "s", "s", "w", "d" >>

EtcPasswdRel == << "e", "t", "c", "/", "p", "a", "s", "s", "w", "d" >>

RawInputs ==
  UNION { [1..n -> RawAlphabet] : n \in 0..MaxRawLen }
    \cup { EmptyRaw, EtcPasswdRaw }

SanIdle(r) == [raw |-> r, rel |-> << >>, abs |-> << >>, done |-> FALSE]

\* ---------------------------------------------------------- credentials

\* A variable of the environment that is not set, and an absent or empty
\* field of a request body: both are falsy in the handlers' tests.
Unset == ""

Usernames == { "admin", "bob" }
Passwords == { "p1", "p2" }

\* crypto.randomBytes(16): the salts a call may draw.
Salts == { "s1", "s2" }

\* crypto.scryptSync(password, salt, 64): a function of both arguments.
Scrypt(password, salt) == << "scrypt", password, salt >>

\* hashPassword(password, salt) with the salt drawn by the caller.
hashPassword(password, salt) ==
  [salt |-> salt, hash |-> Scrypt(password, salt)]

CredsRecord(username, hashed) ==
  [kind |-> "creds", username |-> username,
   salt |-> hashed.salt, hash |-> hashed.hash]

\* HMAC-SHA256 under AUTH_SECRET of `${creds.username}|${creds.hash}`.
tokenForCreds(creds) == << "hmac", creds.username, creds.hash >>

verifyPassword(password, creds) == Scrypt(password, creds.salt) = creds.hash

credsExist == credsFile # None

\* getCreds: the stored record; else, with ADMIN_PASSWORD set, a record
\* hashed under a fresh salt and written to CREDS_PATH; else null.  Each
\* outcome is the record returned and the file's content afterwards.
getCreds ==
  IF credsExist THEN { [creds |-> credsFile, file |-> credsFile] }
  ELSE IF env.password # Unset
  THEN { [creds |-> rec, file |-> rec] :
           rec \in { CredsRecord(IF env.username # Unset THEN env.username
                                 ELSE "admin",
                                 hashPassword(env.password, salt)) :
                     salt \in Salts } }
  ELSE { [creds |-> None, file |-> credsFile] }

\* A setup guard that forgets the stored record.
AlreadyConfiguredEnvOnly == env.password # Unset

\* credsExist() || ADMIN_PASSWORD
AlreadyConfigured == credsExist \/ env.password # Unset

NoToken == << >>
ForgedToken == << "hmac", "admin", << "scrypt", "guess", "s1" >> >>

\* The bearer tokens a client presents: none, a forged one, the valid one.
ClientTokens ==
  { NoToken, ForgedToken }
    \cup (IF credsExist THEN { tokenForCreds(credsFile) } ELSE { })

\* authMiddleware's verdict on a token, given what getCreds returned:
\* 0 lets the request through.
AuthStatus(tok, creds) ==
  IF creds = None THEN 401
  ELSE IF tok = NoToken \/ tok # tokenForCreds(creds) THEN 401
  ELSE 0

AuthError(tok, creds) ==
  IF creds = None THEN "Setup required" ELSE "Unauthorized"

Response(op, status, error, body) ==
  [op |-> op, status |-> status, error |-> error, body |-> body]

NoBody == << >>

\* What the requests of the credential routes leave alone.
FilesUnchanged == UNCHANGED << san, db, fs, up, stageNo, reqs >>

\* GET /api/auth/state
AuthState ==
  /\ resp' = Response("state", 200, "", AlreadyConfigured)
  /\ UNCHANGED << credsFile, env >>
  /\ FilesUnchanged

\* POST /api/auth/setup with body { username, password }
Setup(username, password, salt) ==
  /\ IF AlreadyConfigured
     THEN /\ resp' = Response("setup", 400, "Already configured", NoBody)
          /\ UNCHANGED credsFile
     ELSE IF username = Unset \/ password = Unset
     THEN /\ resp' = Response("setup", 400,
                              "Username and password required", NoBody)
          /\ UNCHANGED credsFile
     ELSE LET record == CredsRecord(username, hashPassword(password, salt))
          IN  /\ credsFile' = record
              /\ resp' = Response("setup", 200, "", tokenForCreds(record))
  /\ UNCHANGED env
  /\ FilesUnchanged

\* POST /api/login with body { username, password }
Login(username, password) ==
  /\ \E g \in getCreds :
       /\ credsFile' = g.file
       /\ IF g.creds = None
          THEN resp' = Response("login", 401, "Setup required", NoBody)
          ELSE IF username = Unset \/ password = Unset
          THEN resp' = Response("login", 400,
                                "Username and password required", NoBody)
          ELSE IF username # g.creds.username
                   \/ ~verifyPassword(password, g.creds)
          THEN resp' = Response("login", 401, "Invalid credentials", NoBody)
          ELSE resp' = Response("login", 200, "", tokenForCreds(g.creds))
  /\ UNCHANGED env
  /\ FilesUnchanged

\* ---------------------------------------------------------- file system

\* Longest path, in segments, a system call accepts (PATH_MAX): a longer
\* one fails with ENAMETOOLONG.
MaxPathSegs == 4

\* Symbolic links one path resolution follows before it fails with ELOOP.
MaxSymlinkHops == 3

DirNode == [kind |-> "dir", data |-> 0, size |-> 0, target |-> << >>]
FileNode(data, size) ==
  [kind |-> "file", data |-> data, size |-> size, target |-> << >>]
LinkNode(target) ==
  [kind |-> "link", data |-> 0, size |-> 0, target |-> target]

Failed(code, f) == [err |-> code, fs |-> f]
Done(f) == [err |-> "", fs |-> f]

\* Path resolution: walks `rest` from the resolved directory `cur`, following
\* a symbolic link in every component but, unless followLast, the last one.
\* Yields the resolved path, whose last component may not exist.
RECURSIVE Walk(_, _, _, _, _)
Walk(f, cur, rest, followLast, fuel) ==
  IF Len(rest) = 0 THEN [err |-> "", path |-> cur]
  ELSE LET cand == Append(cur, Head(rest))
           last == Len(rest) = 1
       IN  IF cand \notin DOMAIN f
           THEN [err |-> IF last THEN "" ELSE "ENOENT", path |-> cand]
           ELSE IF f[cand].kind = "link" /\ (~last \/ followLast)
           THEN IF fuel = 0 THEN [err |-> "ELOOP", path |-> cand]
                ELSE Walk(f, << >>, f[cand].target \o Tail(rest),
                          followLast, fuel - 1)
           ELSE IF f[cand].kind # "dir" /\ ~last
           THEN [err |-> "ENOTDIR", path |-> cand]
           ELSE Walk(f, cand, Tail(rest), followLast, fuel)

Lookup(f, p, followLast) ==
  IF Len(p) > MaxPathSegs THEN [err |-> "ENAMETOOLONG", path |-> p]
  ELSE Walk(f, << >>, p, followLast, MaxSymlinkHops)

\* fs.promises.stat: follows symbolic links, the last component included.
Stat(f, p) ==
  LET r == Lookup(f, p, TRUE)
  IN  IF r.err # "" THEN [err |-> r.err, path |-> r.path, node |-> None]
      ELSE IF r.path \notin DOMAIN f
      THEN [err |-> "ENOENT", path |-> r.path, node |-> None]
      ELSE [err |-> "", path |-> r.path, node |-> f[r.path]]

\* lstat: as stat, but a symbolic link in the last component is the result.
Lstat(f, p) ==
  LET r == Lookup(f, p, FALSE)
  IN  IF r.err # "" THEN [err |-> r.err, path |-> r.path, node |-> None]
      ELSE IF r.path \notin DOMAIN f
      THEN [err |-> "ENOENT", path |-> r.path, node |-> None]
      ELSE [err |-> "", path |-> r.path, node |-> f[r.path]]

Subtree(f, p) == { q \in DOMAIN f : IsPrefix(p, q) }

Without(f, gone) == [q \in (DOMAIN f) \ gone |-> f[q]]

\* fs.promises.mkdir(p, { recursive: true }): creates p and its missing
\* parents; an existing directory (also behind a link) is no error.
RECURSIVE MkdirP(_, _)
MkdirP(f, p) ==
  LET r == Lookup(f, p, FALSE)
  IN  IF r.err = "ENOENT"
      THEN LET parent == MkdirP(f, Dirname(p))
           IN  IF parent.err # "" THEN parent ELSE MkdirP(parent.fs, p)
      ELSE IF r.err # "" THEN Failed(r.err, f)
      ELSE IF r.path \in DOMAIN f
      THEN LET s == Stat(f, p)
           IN  IF s.err # "" THEN Failed(s.err, f)
               ELSE IF s.node.kind = "dir" THEN Done(f)
               ELSE Failed("EEXIST", f)
      ELSE Done(f @@ (r.path :> DirNode))

\* The file system with the tree at real path a moved to real path b.
MoveTree(f, a, b) ==
  LET moved == Subtree(f, a)
      keep == ((DOMAIN f) \ moved) \ { b }
      To(p) == b \o SubSeq(p, Len(a) + 1, Len(p))
      From(q) == a \o SubSeq(q, Len(b) + 1, Len(q))
  IN  [q \in keep \cup { To(p) : p \in moved } |->
         IF q \in keep THEN f[q] ELSE f[From(q)]]

\* fs.promises.rename(src, dest): rename(2); neither last component is
\* followed, an existing file or empty directory at dest is replaced.
Rename(f, src, dest) ==
  LET a == Lookup(f, src, FALSE)
      b == Lookup(f, dest, FALSE)
  IN  IF a.err # "" THEN Failed(a.err, f)
      ELSE IF a.path \notin DOMAIN f THEN Failed("ENOENT", f)
      ELSE IF b.err # "" THEN Failed(b.err, f)
      ELSE IF a.path = b.path THEN Done(f)
      ELSE IF f[a.path].kind = "dir" /\ IsPrefix(a.path, b.path)
      THEN Failed("EINVAL", f)
      ELSE IF b.path \notin DOMAIN f THEN Done(MoveTree(f, a.path, b.path))
      ELSE IF f[a.path].kind = "dir" /\ f[b.path].kind # "dir"
      THEN Failed("ENOTDIR", f)
      ELSE IF f[a.path].kind # "dir" /\ f[b.path].kind = "dir"
      THEN Failed("EISDIR", f)
      ELSE IF Subtree(f, b.path) # { b.path } THEN Failed("ENOTEMPTY", f)
      ELSE Done(MoveTree(f, a.path, b.path))

\* fs.promises.unlink(p): removes a file or a symbolic link, never a
\* directory.
Unlink(f, p) ==
  LET s == Lstat(f, p)
  IN  IF s.err # "" THEN Failed(s.err, f)
      ELSE IF s.node.kind = "dir" THEN Failed("EISDIR", f)
      ELSE Done(Without(f, { s.path }))

\* A removal that takes the directory's own entry and leaves what is in it.
RmShallow(f, p) ==
  LET s == Lstat(f, p)
  IN  IF s.err # "" THEN Done(f) ELSE Done(Without(f, { s.path }))

\* fs.promises.rm(p, { recursive: true, force: true }): removes the tree
\* at p without following links; a missing p is no error.
RmRecursiveForce(f, p) ==
  LET s == Lstat(f, p)
  IN  IF s.err = "ENOENT" THEN Done(f)
      ELSE IF s.err # "" THEN Failed(s.err, f)
      ELSE IF s.node.kind = "dir" THEN Done(Without(f, Subtree(f, s.path)))
      ELSE Done(Without(f, { s.path }))

\* -------------------------------------------------------------- listing

\* encodeURIComponent(s).replace(/%2F/g, '/'): unreserved characters and
\* the separator stay, every other character becomes a percent escape.
EncodeChar(c) ==
  IF SafeChar(c) \/ c \in { "/", "!", "~", "*", "'", "(", ")" }
  THEN << c >> ELSE << "%", c >>

RECURSIVE EncodePath(_)
EncodePath(s) ==
  IF Len(s) = 0 THEN << >> ELSE EncodeChar(Head(s)) \o EncodePath(Tail(s))

UrlFor(rel) == << "/", "u", "p", "l", "o", "a", "d", "s", "/" >> \o EncodePath(rel)

\* The names readdir returns for the directory at real path d.
Readdir(f, d) == { q[Len(q)] : q \in { p \in DOMAIN f : Len(p) = Len(d) + 1
                                                     /\ IsPrefix(d, p) } }

Hidden(name) == Len(name) > 0 /\ name[1] = "."

\* collectFiles(baseDir, rel): the nodes of the directory baseDir/rel, rel
\* given by its segments.  A node's children are a set: the order is that
\* of readdir, which the platform does not fix.  A failing readdir or stat
\* fails the whole listing.
RECURSIVE collectFiles(_, _, _)
collectFiles(f, baseDir, rel) ==
  LET dir == Stat(f, baseDir \o rel)
      Entry(name) ==
        LET relPath == Append(rel, name)
            stats == Stat(f, baseDir \o relPath)
            children == collectFiles(f, baseDir, relPath)
        IN  IF stats.err # "" THEN [err |-> stats.err, node |-> None]
            ELSE IF stats.node.kind = "dir"
            THEN IF children.err # ""
                 THEN [err |-> children.err, node |-> None]
                 ELSE [err |-> "",
                       node |-> [name |-> name, path |-> Join(relPath),
                                 isDir |-> TRUE, children |-> children.nodes,
                                 size |-> 0, url |-> << >>]]
            ELSE IF stats.node.kind = "file"
            THEN [err |-> "",
                  node |-> [name |-> name, path |-> Join(relPath),
                            isDir |-> FALSE, children |-> { },
                            size |-> stats.node.size,
                            url |-> UrlFor(Join(relPath))]]
            ELSE [err |-> "", node |-> None]
  IN  IF dir.err # "" THEN [err |-> dir.err, nodes |-> { }]
      ELSE IF dir.node.kind # "dir" THEN [err |-> "ENOTDIR", nodes |-> { }]
      ELSE LET results == { Entry(name) :
                              name \in { n \in Readdir(f, dir.path) : ~Hidden(n) } }
               failures == { e \in results : e.err # "" }
           IN  IF failures # { }
               THEN [err |-> (CHOOSE e \in failures : TRUE).err, nodes |-> { }]
               ELSE [err |-> "",
                     nodes |-> { e.node : e \in { x \in results : x.node # None } }]

\* Every node of a listing, the nested ones included.
RECURSIVE AllNodes(_)
AllNodes(nodes) ==
  nodes \cup UNION { AllNodes(n.children) : n \in nodes }

\* ------------------------------------------------------------ handlers

\* What a file handler leaves alone.
AuthUnchanged == UNCHANGED << san, db, env >>

\* authMiddleware answering 401: nothing but the response changes.
Deny(op, tok, creds) ==
  /\ resp' = Response(op, 401, AuthError(tok, creds), NoBody)
  /\ UNCHANGED << fs, up, stageNo >>

\* GET /api/files
ListFiles(tok) ==
  /\ reqs < MaxRequests
  /\ reqs' = reqs + 1
  /\ \E g \in getCreds :
       /\ credsFile' = g.file
       /\ IF AuthStatus(tok, g.creds) # 0 THEN Deny("list", tok, g.creds)
          ELSE LET made == MkdirP(fs, UPLOAD_DIR)
                   tree == collectFiles(made.fs, UPLOAD_DIR, << >>)
               IN  /\ fs' = made.fs
                   /\ resp' = IF made.err # "" \/ tree.err # ""
                              THEN Response("list", 500,
                                            "Could not list files", NoBody)
                              ELSE Response("list", 200, "", tree.nodes)
                   /\ UNCHANGED << up, stageNo >>
  /\ AuthUnchanged

\* DELETE /api/files?path=rawPath
DeleteFile(tok, rawPath) ==
  /\ reqs < MaxRequests
  /\ reqs' = reqs + 1
  /\ \E g \in getCreds :
       /\ credsFile' = g.file
       /\ IF AuthStatus(tok, g.creds) # 0 THEN Deny("delete", tok, g.creds)
          ELSE LET rel == cleanRelPath(rawPath)
                   target == PathJoin(UPLOAD_DIR, rel)
                   stats == Stat(fs, target)
                   out == IF stats.err # "" THEN Failed(stats.err, fs)
                          ELSE IF stats.node.kind = "dir"
                          THEN RmRecursiveForce(fs, target)
                          ELSE Unlink(fs, target)
               IN  IF rel = << >>
                   THEN /\ resp' = Response("delete", 400, "Path required", NoBody)
                        /\ UNCHANGED << fs, up, stageNo >>
                   ELSE /\ fs' = out.fs
                        /\ resp' = IF out.err = ""
                                   THEN Response("delete", 200, "", NoBody)
                                   ELSE IF out.err = "ENOENT"
                                   THEN Response("delete", 404,
                                                 "File not found", NoBody)
                                   ELSE Response("delete", 500,
                                                 "Could not delete file", NoBody)
                        /\ UNCHANGED << up, stageNo >>
  /\ AuthUnchanged

\* POST /api/folders with body { path: rawPath }
CreateFolder(tok, rawPath) ==
  /\ reqs < MaxRequests
  /\ reqs' = reqs + 1
  /\ \E g \in getCreds :
       /\ credsFile' = g.file
       /\ IF AuthStatus(tok, g.creds) # 0 THEN Deny("folders", tok, g.creds)
          ELSE LET rel == cleanRelPath(rawPath)
                   out == MkdirP(fs, PathJoin(UPLOAD_DIR, rel))
               IN  IF rel = << >>
                   THEN /\ resp' = Response("folders", 400,
                                            "Folder path required", NoBody)
                        /\ UNCHANGED << fs, up, stageNo >>
                   ELSE /\ fs' = out.fs
                        /\ resp' = IF out.err = ""
                                   THEN Response("folders", 200, "", NoBody)
                                   ELSE Response("folders", 500,
                                                 "Could not create folder", NoBody)
                        /\ UNCHANGED << up, stageNo >>
  /\ AuthUnchanged

\* A move that renames without making the destination's parent.
MoveItemNoMkdir(f, src, dest) == Rename(f, src, dest)

\* The try block of POST /api/move: mkdir of the destination's parent, then
\* the rename.
MoveItem(f, src, dest) ==
  LET made == MkdirP(f, Dirname(dest))
  IN  IF made.err # "" THEN made ELSE Rename(made.fs, src, dest)

\* The model follows trees whose every path a system call can still name.
Tracked(f) == \A p \in DOMAIN f : Len(p) <= MaxPathSegs

\* POST /api/move with body { from, to }
Move(tok, from, to) ==
  /\ reqs < MaxRequests
  /\ reqs' = reqs + 1
  /\ \E g \in getCreds :
       /\ credsFile' = g.file
       /\ IF AuthStatus(tok, g.creds) # 0 THEN Deny("move", tok, g.creds)
          ELSE LET relFrom == cleanRelPath(from)
                   relTo == cleanRelPath(to)
                   src == PathJoin(UPLOAD_DIR, relFrom)
                   dest == PathJoin(UPLOAD_DIR, relTo)
                   out == MoveItem(fs, src, dest)
               IN  IF relFrom = << >> \/ relTo = << >>
                   THEN /\ resp' = Response("move", 400,
                                 "Both from and to paths are required", NoBody)
                        /\ UNCHANGED << fs, up, stageNo >>
                   ELSE /\ Tracked(out.fs)
                        /\ fs' = out.fs
                        /\ resp' = IF out.err = ""
                                   THEN Response("move", 200, "", NoBody)
                                   ELSE IF out.err = "ENOENT"
                                   THEN Response("move", 404,
                                                 "Source not found", NoBody)
                                   ELSE Response("move", 500,
                                                 "Could not move item", NoBody)
                        /\ UNCHANGED << up, stageNo >>
  /\ AuthUnchanged

\* --------------------------------------------------------------- upload

\* limits.fileSize
FileSizeLimit == 50 * 1024 * 1024

DigitChar(k) == IF k = 1 THEN "1" ELSE IF k = 2 THEN "2" ELSE IF k = 3 THEN "3"
                ELSE IF k = 4 THEN "4" ELSE IF k = 5 THEN "5" ELSE "6"

\* path.basename on a POSIX host: the last non-empty segment.
Basename(name) ==
  LET segs == SelectSeq(Split(name), LAMBDA s : s # << >>)
  IN  IF Len(segs) = 0 THEN << >> ELSE segs[Len(segs)]

\* storage.filename: `${Date.now().toString(36)}-${random hex}-${safeOriginal}`.
\* The k-th name generated differs from every earlier one in its prefix.
StagedName(k, originalname) ==
  << "t", DigitChar(k), "-" >> \o CleanSegment(Basename(originalname))

\* A || B || C over strings: the first that is not empty.
OrElse(x, y, z) == IF x # << >> THEN x ELSE IF y # << >> THEN y ELSE z

UpIdle == [pc |-> "idle", files |-> << >>, staged |-> << >>,
           i |-> 0, done |-> << >>]

\* The bytes multer writes for a part: the stream is cut at the limit.
Written(size) == IF size > FileSizeLimit THEN FileSizeLimit ELSE size

\* POST /api/upload arrives: authMiddleware, then multer starts on the
\* request's parts.  file: [originalname, path (the entry of body.paths, or
\* empty), size, data].
UploadBegin(tok, files) ==
  /\ up.pc = "idle"
  /\ reqs < MaxRequests
  /\ reqs' = reqs + 1
  /\ \E g \in getCreds :
       /\ credsFile' = g.file
       /\ IF AuthStatus(tok, g.creds) # 0 THEN Deny("upload", tok, g.creds)
          ELSE /\ up' = [UpIdle EXCEPT !.pc = IF Len(files) = 0 THEN "handler"
                                              ELSE "staging",
                                       !.files = files]
               /\ UNCHANGED << fs, stageNo, resp >>
  /\ AuthUnchanged

\* multer's diskStorage receives the next part into destination/filename.
\* A part over limits.fileSize is cut at the limit and aborts the request.
MulterStage ==
  /\ up.pc = "staging"
  /\ LET k == Len(up.staged) + 1
         file == up.files[k]
         name == StagedName(stageNo + 1, file.originalname)
         path == Append(UPLOAD_DIR, name)
         tooLarge == file.size > FileSizeLimit
         staged == Append(up.staged, [filename |-> name, path |-> path,
                                      size |-> Written(file.size)])
     IN  /\ stageNo' = stageNo + 1
         /\ fs' = (path :> FileNode(file.data, Written(file.size))) @@ fs
         /\ up' = [up EXCEPT !.staged = staged,
                             !.pc = IF tooLarge THEN "aborting"
                                    ELSE IF k = Len(up.files) THEN "handler"
                                    ELSE "staging"]
  /\ UNCHANGED << san, db, credsFile, env, reqs, resp >>

\* The files of staged, unlinked one after the other, errors ignored.
RECURSIVE RemoveUploaded(_, _)
RemoveUploaded(f, staged) ==
  IF Len(staged) = 0 THEN f
  ELSE RemoveUploaded(Unlink(f, Head(staged).path).fs, Tail(staged))

\* multer aborts with LIMIT_FILE_SIZE: it removes what it staged and passes
\* a MulterError to the error middleware, which answers 400.
MulterAbort ==
  /\ up.pc = "aborting"
  /\ fs' = RemoveUploaded(fs, up.staged)
  /\ resp' = Response("upload", 400, "File too large", NoBody)
  /\ up' = UpIdle
  /\ UNCHANGED << san, db, credsFile, env, stageNo, reqs >>

\* One file of the handler's loop: where it goes and what the file system
\* is afterwards.
PlaceFile(f, file, stagedFile) ==
  LET relRaw == OrElse(file.path, file.originalname, stagedFile.filename)
      rel == cleanRelPath(relRaw)
      targetPath == PathJoin(UPLOAD_DIR, rel)
      made == MkdirP(f, Dirname(targetPath))
  IN  IF rel = << >> THEN Failed("Invalid path", f)
      ELSE IF made.err # "" THEN made
      ELSE Rename(made.fs, stagedFile.path, targetPath)

SavedEntry(file, stagedFile) ==
  LET rel == cleanRelPath(OrElse(file.path, file.originalname,
                                 stagedFile.filename))
  IN  [name |-> Basename(rel), path |-> rel, size |-> stagedFile.size,
       url |-> UrlFor(rel)]

\* The handler of POST /api/upload, one iteration of its loop per step (each
\* iteration awaits mkdir and rename).
UploadHandler ==
  /\ up.pc = "handler"
  /\ IF Len(up.files) = 0
     THEN /\ resp' = Response("upload", 400, "No files uploaded", NoBody)
          /\ up' = UpIdle
          /\ UNCHANGED fs
     ELSE LET i == up.i + 1
              out == PlaceFile(fs, up.files[i], up.staged[i])
              done == Append(up.done, SavedEntry(up.files[i], up.staged[i]))
          IN  IF out.err # ""
              THEN /\ fs' = out.fs
                   /\ resp' = Response("upload", 500,
                                       "Could not save files", NoBody)
                   /\ up' = UpIdle
              ELSE /\ fs' = out.fs
                   /\ IF i = Len(up.files)
                      THEN /\ resp' = Response("upload", 200, "", done)
                           /\ up' = UpIdle
                      ELSE /\ up' = [up EXCEPT !.i = i, !.done = done]
                           /\ UNCHANGED resp
  /\ UNCHANGED << san, db, credsFile, env, stageNo, reqs >>

\* --------------------------------------------------------------- inputs

NameA == << "a" >>
NameB == << "b" >>
NameL == << "l" >>
NameS == << "s" >>

\* A directory beside the storage root, and a file in it.
OutsideDir == << << "e" >> >>
OutsideFile == << << "e" >>, NameS >>

\* The raw paths requests carry: plain and nested names, a path behind the
\* name that is a symbolic link in some images, a path with a `..` segment,
\* an empty path and one that is empty once cleaned.
RawA == << "a" >>
RawB == << "b" >>
RawAB == << "a", "/", "b" >>
RawL == << "l" >>
RawLS == << "l", "/", "s" >>
RawUpA == << ".", ".", "/", "a" >>
RawUp == << ".", ".", "/" >>
RawBAB == << "b", "/", "a", "/", "b" >>

ReqPaths == { EmptyRaw, RawUpA, RawB, RawAB, RawL, RawLS }

MoveSources == { EmptyRaw, RawUpA, RawB, RawAB, RawLS }

MoveTargets == { RawUp, RawA, RawAB, RawBAB }

UploadFile(originalname, path, size, data) ==
  [originalname |-> originalname, path |-> path, size |-> size, data |-> data]

\* The parts upload requests are made of: a plain file, another content
\* sent for the same target, a target that is empty once cleaned, a part
\* over the limit, a nested target.
UploadFiles ==
  { UploadFile(RawA, << >>, 10, 1),
    UploadFile(RawB, RawA, 10, 2),
    UploadFile(RawA, RawUp, 10, 1),
    UploadFile(RawB, << >>, FileSizeLimit + 1, 2),
    UploadFile(RawB, RawAB, 10, 1) }

\* Requests of no, one and two parts.
UploadRequests ==
  { << >> } \cup { << x >> : x \in UploadFiles }
    \cup { << x, y >> : x \in UploadFiles, y \in UploadFiles }

BaseImage ==
  (<< >> :> DirNode) @@ (UPLOAD_DIR :> DirNode) @@ (OutsideDir :> DirNode)
    @@ (OutsideFile :> FileNode(9, 10))

LinkTargets == { OutsideDir, OutsideFile, UPLOAD_DIR }

\* The storage root as the mounted volume may hold it at start: empty, or
\* with one symbolic link `l` to a directory outside, to a file outside, or
\* to the root itself.  No handler makes a link.
LinkImages ==
  { BaseImage }
    \cup { (Append(UPLOAD_DIR, NameL) :> LinkNode(t)) @@ BaseImage :
             t \in LinkTargets }

FileB == Append(UPLOAD_DIR, NameB) :> FileNode(1, 10)

FolderA ==
  (Append(UPLOAD_DIR, NameA) :> DirNode)
    @@ (UPLOAD_DIR \o << NameA, NameB >> :> FileNode(2, 10))

\* The same, over what earlier uploads left in the root: nothing, a file
\* `b`, a folder `a` holding a file `a/b`, or both.
StoredImages ==
  UNION { { i, FileB @@ i, FolderA @@ i, FileB @@ FolderA @@ i } :
          i \in LinkImages }

NoResponse == Response("none", 0, "", NoBody)

\* The record an earlier setup stored.
StoredCreds == CredsRecord("admin", hashPassword("p1", "s1"))

\* ------------------------------------------------------ the todo service

\* SQL NULL in a column that holds a row id (ids start at 1); `x || null`
\* turns a missing or zero id into it.
Null == 0

\* The tables after initDb on a fresh database.  A row's id is its index:
\* AUTOINCREMENT, and no route deletes a row.
EmptyDb ==
  [teams |-> << >>, users |-> << >>, tasks |-> << >>, notifications |-> << >>]

\* String.prototype.trim, for the blank the inputs use.
RECURSIVE TrimStart(_)
TrimStart(s) == IF s # << >> /\ Head(s) = " " THEN TrimStart(Tail(s)) ELSE s

RECURSIVE TrimEnd(_)
TrimEnd(s) ==
  IF s # << >> /\ s[Len(s)] = " "
  THEN TrimEnd(SubSeq(s, 1, Len(s) - 1))
  ELSE s

Trim(s) == TrimEnd(TrimStart(s))

\* String.prototype.toUpperCase, for the letters invite codes are typed in.
UpperChar(c) ==
  CASE c = "a" -> "A"
    [] c = "b" -> "B"
    [] c = "c" -> "C"
    [] OTHER -> c

ToUpperCase(s) == [i \in 1..Len(s) |-> UpperChar(s[i])]

\* What generateInviteCode can return: upper-case base-36 text, here of one
\* character; two calls may return the same code.
InviteCodes == { << "A" >>, << "B" >>, << "C" >> }

\* bcrypt.hash(password, 10)
BcryptHash(password) == << "$", "2" >> \o password

\* A request body's field, or what stands for it when the body lacks it.
Field(body, k, otherwise) == IF k \in DOMAIN body THEN body[k] ELSE otherwise

\* SELECT id FROM teams WHERE invite_code = ?  (0 when no row matches)
TeamByCode(code) ==
  IF \E i \in 1..Len(db.teams) : db.teams[i].invite_code = code
  THEN CHOOSE i \in 1..Len(db.teams) : db.teams[i].invite_code = code
  ELSE Null

\* SELECT id FROM users WHERE id = ? AND team_id = ?
UserOnTeam(id, team) ==
  id \in 1..Len(db.users) /\ db.users[id].team_id = team

\* What a todo request leaves alone.
TodoUnchanged == UNCHANGED << san, credsFile, env, fs, up, stageNo >>

\* A request answered without a write.
Refuse(op, status, error) ==
  /\ resp' = Response(op, status, error, NoBody)
  /\ UNCHANGED db

\* auth and withTeam: the status they answer for bearer token tok, the id of
\* the user it was signed for (0: no token, or not a valid one); 0 lets the
\* request through.
TodoAuthStatus(tok, needTeam) ==
  IF tok \notin 1..Len(db.users) THEN 401
  ELSE IF needTeam /\ db.users[tok].team_id = Null THEN 400
  ELSE 0

TodoAuthError(tok) ==
  IF tok = 0 THEN "Missing token"
  ELSE IF tok \notin 1..Len(db.users) THEN "User not found"
  ELSE "Join or create a team first"

\* POST /api/auth/register; inviteCode is what generateInviteCode returns.
Register(name, email, password, teamName, inviteCode) ==
  /\ reqs < MaxTodoRequests
  /\ reqs' = reqs + 1
  /\ IF name = << >> \/ email = << >> \/ password = << >>
     THEN Refuse("register", 400, "Missing required fields")
     ELSE IF \E i \in 1..Len(db.users) : db.users[i].email = email
     THEN Refuse("register", 400, "Email already in use")
     ELSE IF TeamByCode(inviteCode) # Null
     THEN Refuse("register", 500, "Registration failed")
     ELSE LET teamLabel == IF Trim(teamName) # << >> THEN Trim(teamName)
                           ELSE name \o << "'", "s", " ", "T", "e", "a", "m" >>
              teamId == Len(db.teams) + 1
              userId == Len(db.users) + 1
          IN  /\ db' = [db EXCEPT
                   !.teams = Append(@, [name |-> teamLabel,
                                        invite_code |-> inviteCode]),
                   !.users = Append(@, [name |-> name, email |-> email,
                                        password_hash |-> BcryptHash(password),
                                        team_id |-> teamId])]
              /\ resp' = Response("register", 200, "",
                                  << [id |-> userId, team_id |-> teamId] >>)
  /\ TodoUnchanged

\* POST /api/teams
CreateTeam(tok, name, inviteCode) ==
  /\ reqs < MaxTodoRequests
  /\ reqs' = reqs + 1
  /\ IF TodoAuthStatus(tok, FALSE) # 0
     THEN Refuse("createTeam", TodoAuthStatus(tok, FALSE), TodoAuthError(tok))
     ELSE IF Trim(name) = << >>
     THEN Refuse("createTeam", 400, "Team name required")
     ELSE IF TeamByCode(inviteCode) # Null
     THEN Refuse("createTeam", 500, "Could not create team")
     ELSE LET teamId == Len(db.teams) + 1
          IN  /\ db' = [db EXCEPT
                   !.teams = Append(@, [name |-> Trim(name),
                                        invite_code |-> inviteCode]),
                   !.users[tok].team_id = teamId]
              /\ resp' = Response("createTeam", 200, "", << [id |-> teamId] >>)
  /\ TodoUnchanged

\* POST /api/teams/join
JoinTeam(tok, inviteCode) ==
  /\ reqs < MaxTodoRequests
  /\ reqs' = reqs + 1
  /\ IF TodoAuthStatus(tok, FALSE) # 0
     THEN Refuse("joinTeam", TodoAuthStatus(tok, FALSE), TodoAuthError(tok))
     ELSE IF inviteCode = << >>
     THEN Refuse("joinTeam", 400, "Invite code required")
     ELSE LET team == TeamByCode(ToUpperCase(Trim(inviteCode)))
          IN  IF team = Null
              THEN Refuse("joinTeam", 404, "Team not found")
              ELSE /\ db' = [db EXCEPT !.users[tok].team_id = team]
                   /\ resp' = Response("joinTeam", 200, "", << [id |-> team] >>)
  /\ TodoUnchanged

\* createNotification(userId, taskId, message)
createNotification(d, userId, taskId, message) ==
  [d EXCEPT !.notifications =
     Append(@, [user_id |-> userId, task_id |-> taskId,
                message |-> << "Y", "o", "u", " ", "w", "e", "r", "e", " ",
                               "a", "s", "s", "i", "g", "n", "e", "d", ":",
                               " " >> \o message,
                read |-> 0])]

\* POST /api/tasks with body { title, description, assignedTo }
CreateTask(tok, body) ==
  /\ reqs < MaxTodoRequests
  /\ reqs' = reqs + 1
  /\ IF TodoAuthStatus(tok, TRUE) # 0
     THEN Refuse("createTask", TodoAuthStatus(tok, TRUE), TodoAuthError(tok))
     ELSE LET title == Field(body, "title", << >>)
              assigneeId == Field(body, "assignedTo", Null)
              team == db.users[tok].team_id
              taskId == Len(db.tasks) + 1
              task == [title |-> Trim(title),
                       description |-> Field(body, "description", << >>),
                       status |-> "open",
                       assigned_to |-> assigneeId,
                       created_by |-> tok,
                       team_id |-> team]
              inserted == [db EXCEPT !.tasks = Append(@, task)]
          IN  IF Trim(title) = << >>
              THEN Refuse("createTask", 400, "Title required")
              ELSE IF assigneeId # Null /\ ~UserOnTeam(assigneeId, team)
              THEN Refuse("createTask", 400, "Assignee must be on your team")
              ELSE /\ db' = IF assigneeId # Null
                            THEN createNotification(inserted, assigneeId,
                                                    taskId, Trim(title))
                            ELSE inserted
                   /\ resp' = Response("createTask", 201, "", << task >>)
  /\ TodoUnchanged

\* PUT /api/tasks/:id with body { title, description, status, assignedTo }
UpdateTask(tok, id, body) ==
  /\ reqs < MaxTodoRequests
  /\ reqs' = reqs + 1
  /\ IF TodoAuthStatus(tok, TRUE) # 0
     THEN Refuse("updateTask", TodoAuthStatus(tok, TRUE), TodoAuthError(tok))
     ELSE IF ~(id \in 1..Len(db.tasks)
               /\ db.tasks[id].team_id = db.users[tok].team_id)
     THEN Refuse("updateTask", 404, "Task not found")
     ELSE LET task == db.tasks[id]
              nextTitle == Field(body, "title", task.title)
              nextDescription == Field(body, "description", task.description)
              nextStatus == IF Field(body, "status", "") # ""
                            THEN body.status ELSE task.status
              nextAssignee == Field(body, "assignedTo", task.assigned_to)
              updated == [task EXCEPT !.title = nextTitle,
                                      !.description = nextDescription,
                                      !.status = nextStatus,
                                      !.assigned_to = nextAssignee]
              written == [db EXCEPT !.tasks[id] = updated]
          IN  IF nextAssignee # Null
                 /\ ~UserOnTeam(nextAssignee, db.users[tok].team_id)
              THEN Refuse("updateTask", 400, "Assignee must be on your team")
              ELSE /\ db' = IF nextAssignee # Null
                               /\ nextAssignee # task.assigned_to
                            THEN createNotification(written, nextAssignee, id,
                                                    nextTitle)
                            ELSE written
                   /\ resp' = Response("updateTask", 200, "", << updated >>)
  /\ TodoUnchanged

\* ----------------------------------------------------- todo request inputs

NameAnn == << "a", "n", "n" >>
MailA == << "a", "@", "x" >>
MailB == << "b", "@", "x" >>
Secret == << "p", "w" >>
TeamT == << "T", " " >>
TitleT == << "t" >>

\* Registration forms: two addresses, with and without a team name, and
\* one without an address.
RegisterForms ==
  { [name |-> NameAnn, email |-> MailA, teamName |-> << >>],
    [name |-> NameAnn, email |-> MailB, teamName |-> TeamT],
    [name |-> NameAnn, email |-> << >>, teamName |-> << >>] }

\* The bearer tokens: none, and one signed for each registered user.
TodoTokens == 0..Len(db.users)

\* Invite codes as members type them.
TypedCodes == { << >>, << "a" >>, << " ", "b" >>, << "C" >> }

CreateTaskBodies ==
  { [title |-> << " " >>],
    [title |-> TitleT],
    [title |-> TitleT, assignedTo |-> 1],
    [title |-> TitleT, assignedTo |-> 2] }

UpdateTaskBodies ==
  { [status |-> "done"],
    [assignedTo |-> Null],
    [assignedTo |-> 1],
    [assignedTo |-> 2] }

\* ------------------------------------------------------- specifications

\* The sanitizer applied to every raw path string up to MaxRawLen.
InitSanitize ==
  /\ san \in { SanIdle(r) : r \in RawInputs }
  /\ credsFile = StoredCreds
  /\ env = [username |-> Unset, password |-> Unset]
  /\ fs = BaseImage
  /\ up = UpIdle
  /\ stageNo = 0
  /\ reqs = 0
  /\ resp = NoResponse
  /\ db = EmptyDb

\* cleanRelPath(raw), then path.join(UPLOAD_DIR, rel) as every handler does.
Sanitize ==
  /\ ~san.done
  /\ san' = [raw |-> san.raw,
             rel |-> cleanRelPath(san.raw),
             abs |-> PathJoin(UPLOAD_DIR, cleanRelPath(san.raw)),
             done |-> TRUE]
  /\ UNCHANGED << credsFile, env, fs, up, stageNo, reqs, resp, db >>

NextSanitize == Sanitize

SpecSanitize == InitSanitize /\ [][NextSanitize]_vars

\* The credential routes and one protected route, from a process started
\* with or without ADMIN_USERNAME / ADMIN_PASSWORD and no stored record.
InitAuth ==
  /\ san = SanIdle(EmptyRaw)
  /\ credsFile = None
  /\ env \in [username : { Unset, "bob" }, password : { Unset, "p2" }]
  /\ fs \in LinkImages
  /\ up = UpIdle
  /\ stageNo = 0
  /\ reqs = 0
  /\ resp = NoResponse
  /\ db = EmptyDb

NextAuth ==
  \/ AuthState
  \/ \E u \in Usernames \cup { Unset }, p \in Passwords \cup { Unset },
        s \in Salts : Setup(u, p, s)
  \/ \E u \in Usernames \cup { Unset }, p \in Passwords \cup { Unset } :
        Login(u, p)
  \/ \E tok \in ClientTokens : ListFiles(tok)

SpecAuth == InitAuth /\ [][NextAuth]_vars

\* The file routes of a configured service over a root that holds earlier
\* uploads.
InitFiles ==
  /\ san = SanIdle(EmptyRaw)
  /\ credsFile = StoredCreds
  /\ env = [username |-> Unset, password |-> Unset]
  /\ fs \in StoredImages
  /\ up = UpIdle
  /\ stageNo = 0
  /\ reqs = 0
  /\ resp = NoResponse
  /\ db = EmptyDb

NextFiles ==
  \/ \E tok \in ClientTokens : ListFiles(tok)
  \/ \E tok \in ClientTokens, p \in ReqPaths : DeleteFile(tok, p)
  \/ \E tok \in ClientTokens, p \in ReqPaths : CreateFolder(tok, p)
  \/ \E tok \in ClientTokens, from \in MoveSources, to \in MoveTargets :
        Move(tok, from, to)

SpecFiles == InitFiles /\ [][NextFiles]_vars

\* The upload route, its parts staged by multer and placed by the handler
\* one step at a time, with listings in between.
InitUpload ==
  /\ san = SanIdle(EmptyRaw)
  /\ credsFile = StoredCreds
  /\ env = [username |-> Unset, password |-> Unset]
  /\ fs \in LinkImages
  /\ up = UpIdle
  /\ stageNo = 0
  /\ reqs = 0
  /\ resp = NoResponse
  /\ db = EmptyDb

NextUpload ==
  \/ \E tok \in ClientTokens, files \in UploadRequests : UploadBegin(tok, files)
  \/ MulterStage
  \/ MulterAbort
  \/ UploadHandler
  \/ \E tok \in ClientTokens : ListFiles(tok)

SpecUpload == InitUpload /\ [][NextUpload]_vars

\* The todo service from an empty database.
InitTodo ==
  /\ san = SanIdle(EmptyRaw)
  /\ credsFile = None
  /\ env = [username |-> Unset, password |-> Unset]
  /\ fs = BaseImage
  /\ up = UpIdle
  /\ stageNo = 0
  /\ reqs = 0
  /\ resp = NoResponse
  /\ db = EmptyDb

NextTodo ==
  \/ \E f \in RegisterForms, c \in InviteCodes :
        Register(f.name, f.email, Secret, f.teamName, c)
  \/ \E tok \in TodoTokens, n \in { << " " >>, TeamT }, c \in InviteCodes :
        CreateTeam(tok, n, c)
  \/ \E tok \in TodoTokens, c \in TypedCodes : JoinTeam(tok, c)
  \/ \E tok \in TodoTokens, b \in CreateTaskBodies : CreateTask(tok, b)
  \/ \E tok \in TodoTokens, id \in 1..Len(db.tasks), b \in UpdateTaskBodies :
        UpdateTask(tok, id, b)

SpecTodo == InitTodo /\ [][NextTodo]_vars

\* ---------------------------------------------------------------- claims

\* The segments of a cleaned path.
SegmentsOf(rel) == IF rel = << >> THEN << >> ELSE Split(rel)

\* C1: for every raw path string, the output of cleanRelPath holds no
\* segment equal to `..`, and joined to the storage root it is the root or
\* lies under it.
C1_SanitizeConfined ==
  san.done =>
    /\ \A i \in 1..Len(SegmentsOf(san.rel)) : SegmentsOf(san.rel)[i] # DotDot
    /\ InsideRoot(san.abs)

\* A raw path with a `..` segment and something left of it once cleaned.
C1_Witness ==
  /\ san.done
  /\ san.rel # << >>
  /\ \E i \in 1..Len(Split(ReplaceBackslashes(san.raw))) :
       Split(ReplaceBackslashes(san.raw))[i] = DotDot

\* C4 as stated: sanitize("") and sanitize("../../etc/passwd") both yield
\* the empty path.
C4_Original ==
  (san.done /\ san.raw \in { EmptyRaw, EtcPasswdRaw }) => san.rel = << >>

\* C4 as the code has it: sanitize("") yields the empty path, and
\* sanitize("../../etc/passwd") yields "etc/passwd" (the `..` segments are
\* dropped, the others stay).
C4_SanitizeExamples ==
  san.done =>
    /\ san.raw = EmptyRaw => san.rel = << >>
    /\ san.raw = EtcPasswdRaw => san.rel = EtcPasswdRel

C4_Witness == san.done /\ san.raw = EtcPasswdRaw /\ san.rel # << >>

\* The service is configured: a record is stored or ADMIN_PASSWORD is set.
Configured == credsFile # None \/ env.password # Unset

\* C10: once the service is configured, every setup call is answered 400,
\* the service stays configured, and the stored record, hence the token
\* authMiddleware accepts, is the same after every step.
C10_SetupOnlyOnce ==
  [][ Configured =>
        /\ Configured'
        /\ (\E u \in Usernames \cup { Unset }, p \in Passwords \cup { Unset },
               s \in Salts : Setup(u, p, s)) => resp'.status = 400
        /\ credsFile # None =>
             /\ credsFile' = credsFile
             /\ \A tok \in ClientTokens :
                  AuthStatus(tok, credsFile') = AuthStatus(tok, credsFile) ]_vars

\* A setup call rejected after an earlier one stored the record.
C10_Witness ==
  /\ credsFile # None
  /\ env.password = Unset
  /\ resp = Response("setup", 400, "Already configured", NoBody)

\* The token of the stored record: what an authorized client sends.
ValidToken == tokenForCreds(credsFile)

\* The entries of a file system outside the storage root, and under it.
OutsideEntries(f) == [q \in { p \in DOMAIN f : ~InsideRoot(p) } |-> f[q]]
RootEntries(f) == [q \in { p \in DOMAIN f : InsideRoot(p) } |-> f[q]]

\* C2 as stated: every file operation checks that the resolved target is
\* inside the storage root before it touches the file system, so no step
\* creates, renames or removes anything outside the root, also when an
\* entry under the root is a symbolic link that points outside.
C2_Original == [][ OutsideEntries(fs') = OutsideEntries(fs) ]_vars

\* Some component of the absolute path p is a symbolic link.
ThroughLink(f, p) ==
  \E k \in 1..Len(p) :
    SubSeq(p, 1, k) \in DOMAIN f /\ f[SubSeq(p, 1, k)].kind = "link"

\* C5 as stated: a listing holds no node for a symbolic link and none
\* reached through one, and it ends with the tree (a link to an ancestor
\* does not make it fail).
C5_Original ==
  [][ ListFiles(ValidToken) =>
        /\ resp'.status = 200
        /\ \A n \in AllNodes(resp'.body) :
             ~ThroughLink(fs', UPLOAD_DIR \o Split(n.path)) ]_vars

\* The proper ancestors of an absolute path.
Ancestors(p) == { SubSeq(p, 1, k) : k \in 0..(Len(p) - 1) }

\* Nothing resolves at the absolute path p.
Missing(f, p) == Stat(f, p).err # ""

\* What C7 promises of a move of the file at src to dest, from file system
\* f to g: answered 200, nothing at src, the same file at dest under a
\* directory, and every other entry as before, the new entries being dest
\* and directories above it.
MovedExactly(f, g, src, dest, status) ==
  /\ status = 200
  /\ Stat(g, src).err = "ENOENT"
  /\ Stat(g, dest).err = ""
  /\ Stat(g, dest).node = Stat(f, src).node
  /\ Stat(g, Dirname(dest)).err = ""
  /\ Stat(g, Dirname(dest)).node.kind = "dir"
  /\ \A q \in (DOMAIN f) \ { Lstat(f, src).path } :
       q \in DOMAIN g /\ g[q] = f[q]
  /\ \A q \in (DOMAIN g) \ (DOMAIN f) :
       \/ q = Lstat(g, dest).path
       \/ q \in Ancestors(Lstat(g, dest).path) /\ g[q].kind = "dir"

\* The raw path names an existing regular file under the root.
SourceIsFile(f, from) ==
  /\ cleanRelPath(from) # << >>
  /\ Stat(f, PathJoin(UPLOAD_DIR, cleanRelPath(from))).err = ""
  /\ Stat(f, PathJoin(UPLOAD_DIR, cleanRelPath(from))).node.kind = "file"

\* The raw path names a destination whose parent directory does not exist.
ParentIsMissing(f, to) ==
  /\ cleanRelPath(to) # << >>
  /\ Missing(f, Dirname(PathJoin(UPLOAD_DIR, cleanRelPath(to))))

\* C7 as stated: for an existing file at `from` and a destination whose
\* parent directory does not exist, move creates the missing parents, and
\* afterwards nothing is at `from`, the file is at `to` with the content it
\* had, and every other entry is unchanged.  (Stated for a source that is
\* not itself a component of the destination.)
C7_Original ==
  [][ resp'.op = "move" =>
        \A from \in { p \in MoveSources : SourceIsFile(fs, p) } :
          \A to \in { p \in MoveTargets : ParentIsMissing(fs, p) } :
            ( /\ ~IsPrefix(CleanSegments(from), CleanSegments(to))
              /\ Move(ValidToken, from, to) ) =>
              MovedExactly(fs, fs', PathJoin(UPLOAD_DIR, cleanRelPath(from)),
                           PathJoin(UPLOAD_DIR, cleanRelPath(to)),
                           resp'.status) ]_vars

\* Every proper ancestor of p either does not exist or resolves to a
\* directory: the missing ones can be made.
AncestorsAreDirs(f, p) ==
  \A a \in Ancestors(p) :
    \/ Lstat(f, a).err = "ENOENT"
    \/ Stat(f, a).err = "" /\ Stat(f, a).node.kind = "dir"

\* C7 as the code has it: the same, provided every ancestor of `to` that
\* exists is (or resolves to) a directory; under a regular file no
\* directory can be made, and the move fails with nothing changed.
C7_MoveCreatesParents ==
  [][ resp'.op = "move" =>
        \A from \in { p \in MoveSources : SourceIsFile(fs, p) } :
          \A to \in { p \in MoveTargets :
                        /\ ParentIsMissing(fs, p)
                        /\ AncestorsAreDirs(fs, PathJoin(UPLOAD_DIR,
                                                         cleanRelPath(p))) } :
            Move(ValidToken, from, to) =>
              MovedExactly(fs, fs', PathJoin(UPLOAD_DIR, cleanRelPath(from)),
                           PathJoin(UPLOAD_DIR, cleanRelPath(to)),
                           resp'.status) ]_vars

\* The file a/b moved to b/a/b in a root that held no b: both parents made.
C7_Witness ==
  /\ reqs = 1
  /\ resp = Response("move", 200, "", NoBody)
  /\ UPLOAD_DIR \o << NameB, NameA, NameB >> \in DOMAIN fs
  /\ fs[UPLOAD_DIR \o << NameB, NameA, NameB >>] = FileNode(2, 10)
  /\ fs[UPLOAD_DIR \o << NameB, NameA >>].kind = "dir"
  /\ UPLOAD_DIR \o << NameA, NameB >> \notin DOMAIN fs

\* C8: delete on an existing directory is answered 200 and removes the
\* directory and every descendant (nothing is left at or under its path, a
\* listing taken afterwards shows neither), and every entry outside that
\* subtree is unchanged.
C8_DeleteDirectory ==
  [][ \A p \in ReqPaths :
        LET rel == cleanRelPath(p)
            target == PathJoin(UPLOAD_DIR, rel)
            gone == Lstat(fs, target).path
            tree == collectFiles(fs', UPLOAD_DIR, << >>)
        IN  ( /\ resp'.op = "delete"
              /\ rel # << >>
              /\ Stat(fs, target).err = ""
              /\ Stat(fs, target).node.kind = "dir"
              /\ DeleteFile(ValidToken, p) ) =>
              /\ resp'.status = 200
              /\ Stat(fs', target).err = "ENOENT"
              /\ \A q \in DOMAIN fs' : ~IsPrefix(gone, q)
              /\ \A q \in DOMAIN fs :
                   ~IsPrefix(gone, q) => q \in DOMAIN fs' /\ fs'[q] = fs[q]
              /\ DOMAIN fs' \subseteq DOMAIN fs
              /\ tree.err = "" =>
                   \A n \in AllNodes(tree.nodes) :
                     ~IsPrefix(SegmentsOf(rel), Split(n.path)) ]_vars

\* The folder a, which held a/b, deleted from a root that keeps its file b,
\* its link l and the file outside.
C8_Witness ==
  /\ reqs = 1
  /\ resp = Response("delete", 200, "", NoBody)
  /\ Append(UPLOAD_DIR, NameA) \notin DOMAIN fs
  /\ UPLOAD_DIR \o << NameA, NameB >> \notin DOMAIN fs
  /\ Append(UPLOAD_DIR, NameB) \in DOMAIN fs
  /\ Append(UPLOAD_DIR, NameL) \in DOMAIN fs
  /\ OutsideFile \in DOMAIN fs

\* A step of the upload request in flight.
UploadStep == MulterStage \/ MulterAbort \/ UploadHandler

\* The request holds a part over the size limit.
HasOversize(files) == \E k \in 1..Len(files) : files[k].size > FileSizeLimit

\* C3 as stated: while a request with a part over the limit is handled, no
\* step of it changes the set of entries under the storage root, and it is
\* answered 400.
C3_Original ==
  [][ (up.pc # "idle" /\ HasOversize(up.files) /\ UploadStep) =>
        /\ RootEntries(fs') = RootEntries(fs)
        /\ up'.pc = "idle" => resp'.status = 400 ]_vars

\* The raw target of the part the handler places next.
NextRawTarget ==
  OrElse(up.files[up.i + 1].path, up.files[up.i + 1].originalname,
         up.staged[up.i + 1].filename)

\* C6 as stated: an upload whose target path is empty once cleaned is
\* answered 400.
C6_Original ==
  [][ ( /\ up.pc = "handler"
        /\ Len(up.files) > 0
        /\ cleanRelPath(NextRawTarget) = << >>
        /\ UploadHandler ) => resp'.status = 400 ]_vars

\* The staged files of the request in flight.
StagedPaths == { up.staged[k].path : k \in 1..Len(up.staged) }

\* C9 as stated: an upload never overwrites or replaces a file an earlier
\* upload stored: when the handler places the first part of a request,
\* every regular file under the root that is not staged for this request
\* is afterwards where it was, with its content.
C9_Original ==
  [][ (up.pc = "handler" /\ up.i = 0 /\ UploadHandler) =>
        \A q \in DOMAIN fs :
          (InsideRoot(q) /\ fs[q].kind = "file" /\ q \notin StagedPaths) =>
            q \in DOMAIN fs' /\ fs'[q] = fs[q] ]_vars

\* C11 as stated: when an upload request has finished, answered with
\* success or with failure, no staged file of that request remains in the
\* storage root.
C11_Original ==
  [][ (up.pc # "idle" /\ up'.pc = "idle" /\ UploadStep) =>
        \A q \in StagedPaths : q \notin DOMAIN fs' ]_vars

\* The raw path names a source at which nothing exists.
SourceIsMissing(f, from) ==
  /\ cleanRelPath(from) # << >>
  /\ Lstat(f, PathJoin(UPLOAD_DIR, cleanRelPath(from))).err = "ENOENT"

\* C12 as stated: a move whose source does not exist is answered 404 and
\* leaves the storage root as it was: nothing is created, renamed or
\* removed.
C12_Original ==
  [][ resp'.op = "move" =>
        \A from \in { p \in MoveSources : SourceIsMissing(fs, p) } :
          \A to \in { p \in MoveTargets : cleanRelPath(p) # << >> } :
            Move(ValidToken, from, to) =>
              /\ resp'.status = 404
              /\ RootEntries(fs') = RootEntries(fs) ]_vars

\* C13 as stated: in the todo service, after any sequence of register,
\* create-team, join-team, create-task and update-task requests, every task
\* with an assignee is assigned to a user who is a member of the task's
\* team.
C13_Original ==
  \A t \in 1..Len(db.tasks) :
    db.tasks[t].assigned_to # Null =>
      UserOnTeam(db.tasks[t].assigned_to, db.tasks[t].team_id)
====
